---- MODULE Spec2Model ----
(***************************************************************************)
(* The proctored exam of vigil-guard-exam: the ExamInterface component     *)
(* (session state, countdown, violation log, session store requests) and   *)
(* the two monitors it mounts (ProctorCamera, AudioMonitor).               *)
(*                                                                         *)
(* React is modelled by what it does to the code: a component's state is   *)
(* a set of variables, an event handler or a promise continuation is one   *)
(* atomic action (set-state calls of one handler are applied together),    *)
(* and a function created during a render keeps the state values of that   *)
(* render (its closure) for as long as somebody holds it.                  *)
(***************************************************************************)
EXTENDS Integers, Sequences, FiniteSets, TLC

\* ------------------------------------------------------------------ bounds
\* Countdown length; stands for the 3600 of useState(3600), scaled down.
Duration == 2
\* createSession requests issued in one run (startExam calls).
MaxSessions == 2
\* handleViolation calls in one run.
MaxReports == 2
\* Submit-button clicks in one run (the timer's own submit is not capped).
MaxSubmits == 1
\* loadModels calls in flight at a time.
MaxLoads == 1
\* Sampling ticks recorded in the observation trace.
MaxTicks == 4
\* Questions that loadQuestions returns (the code asks for at most 10).
NumQuestions == 2
\* Firings of the detection interval that start a detection in one run.
MaxCaptures == 3
\* loadModels calls of the retrying loader in one run.
MaxAttempts == 5
\* Networks the retrying loader loads (the code loads three).
NumModels == 2

\* --------------------------------------------------------------- constants
\* Gaze ratio thresholds, in hundredths (1.15 and 0.85).
GazeLeftAbove == 115
GazeRightBelow == 85
\* Audio level threshold (normalizedLevel > 30).
AudioThreshold == 30
\* maxRetries of the retrying loader.
MaxRetries == 3

\* Gaze ratios (hundredths) and audio levels fed to the classifiers.
Ratios == {84, 85, 100, 115, 116}
Levels == {0, 30, 31, 100}
FaceCounts == {0, 1, 2}
\* The ratio of two eyes of equal width.
CentredRatio == 100
\* The options of a question, and the arguments jumpToQuestion is called with
\* when it is called as a function of a number.
Options == {"a", "b"}
JumpArgs == (0 - 1)..NumQuestions
\* The question ids handleAnswerChange is called with when it is called as a
\* function of an id (0 stands for undefined, the id of no question).
AnswerArgs == 0..(NumQuestions + 1)

VARIABLES
  \* ExamInterface state (useState)
  examStarted,     \* boolean
  sessionId,       \* 0 stands for '', else the row number of the session
  timeRemaining,   \* countdown
  violations,      \* local violation log
  questions,       \* number of questions loaded (0 stands for [])
  currentQuestionIndex,
  selectedAnswers, \* function: question id -> selected option
  markedQuestions, \* set of indices
  \* session store (table exam_sessions) and requests in flight
  db,              \* sequence of rows [status, ended_at, violations]
  startReqs,       \* createSession requests in flight (a count)
  submitReqs,      \* completeSession requests in flight (a set; each has its own time)
  violReqs,        \* violation-list updates in flight (a set; each has its own time)
  \* clocks standing for new Date()
  nReports,        \* handleViolation calls so far
  nSubmits,        \* handleSubmitExam calls so far
  nStarts,         \* startExam calls so far
  \* ProctorCamera instance currently mounted
  modelLoaded,
  isInitializing,
  faceDetected,    \* detectionState.faceDetected
  camStream,       \* streamRef.current holds an open stream
  videoSrc,        \* the mounted video element has the stream as srcObject
  camInterval,     \* closure of the running detection interval, or NoCb
  camLoads,        \* loadModels calls in flight, in issue order: [cb, live]
  camAcq,          \* camera getUserMedia calls in flight (a set of [cb, live])
  camDetects,      \* detectAllFaces calls in flight (a set of [k, cb, live])
  nCaptures,       \* interval firings that started a detection so far
  \* AudioMonitor
  audStream,       \* streamRef.current holds an open stream
  audAcq,          \* microphone getUserMedia calls in flight (a set of [cb, live])
  audLoops,        \* closures of the requestAnimationFrame loops that run
  \* observations (not program state)
  endedAtWrites,   \* per row: how many times ended_at was written
  elapsed,         \* timer ticks since the exam last became Active
  timerSubmits,    \* timer's handleSubmitExam calls since the exam last became Active
  trace,           \* sampling ticks observed: [mod, cls, emitted], vision: faces, ratio
  reported,        \* every violation handleViolation was called with
  strayStreams,    \* devices whose open stream no mounted monitor holds
  applied,         \* capture numbers of the detections, in the order applied
  \* the ProctorCamera with the retrying model loader, on its own
  loadCalls,       \* its loadModels calls so far: [retryCount, parent, loaders, status]
  netsLoaded,      \* per model: a loadFromUri of it has succeeded
  retryModelLoaded,\* its modelLoaded
  retryCamera      \* its activation effect has called startCamera

parentVars == <<examStarted, sessionId, timeRemaining, violations>>
examVars == <<examStarted, sessionId, timeRemaining>>
storeVars == <<db, startReqs, submitReqs, violReqs, endedAtWrites>>
clockVars == <<nReports, nSubmits>>
sheetVars == <<questions, currentQuestionIndex, selectedAnswers, markedQuestions>>
camVars == <<modelLoaded, isInitializing, faceDetected, camStream, videoSrc,
             camInterval, camLoads, camAcq>>
audVars == <<audStream, audAcq, audLoops>>
detVars == <<camDetects, nCaptures, applied>>
retryVars == <<loadCalls, netsLoaded, retryModelLoaded, retryCamera>>
vars == <<parentVars, sheetVars, storeVars, clockVars, nStarts, camVars, audVars,
          elapsed, timerSubmits, trace, reported, strayStreams, detVars, retryVars>>

\* ------------------------------------------------------------------ helpers
NoCb == [viol |-> <<>>, sid |-> -1]

\* The networks the retrying loader loads, by number.
Models == 1..NumModels

\* A loadModels(retryCount) call of the retrying loader at the point where its
\* three loadWithRetry run; parent is the loadWithRetry that awaits it.
NoParent == [call |-> 0, model |-> 0]

NewLoad(retryCount, parent) ==
  [retryCount |-> retryCount, parent |-> parent,
   loaders |-> [m \in Models |-> "loading"], status |-> "running"]

\* The call the effect makes at mount: loadModels().
FirstLoad == NewLoad(0, NoParent)

\* The handleViolation of the current render: it closes over the violations
\* and the sessionId of that render.
Handler(v, s) == [viol |-> v, sid |-> s]

\* All calls of an unmounted instance stay in flight; their continuations act
\* on an instance that no longer exists.
Orphan(calls) == {[c EXCEPT !.live = FALSE] : c \in calls}

OrphanSeq(calls) == [i \in 1..Len(calls) |-> [calls[i] EXCEPT !.live = FALSE]]

RemoveAt(s, i) == SubSeq(s, 1, i - 1) \o SubSeq(s, i + 1, Len(s))

IsPrefix(s, t) == Len(s) <= Len(t) /\ SubSeq(t, 1, Len(s)) = s

Init ==
  /\ examStarted = FALSE
  /\ sessionId = 0
  /\ timeRemaining = Duration
  /\ violations = <<>>
  /\ questions = 0
  /\ currentQuestionIndex = 0
  /\ selectedAnswers = [q \in {} |-> "a"]
  /\ markedQuestions = {}
  /\ db = <<>>
  /\ startReqs = 0
  /\ submitReqs = {}
  /\ violReqs = {}
  /\ endedAtWrites = <<>>
  /\ nReports = 0
  /\ nSubmits = 0
  /\ nStarts = 0
  /\ modelLoaded = FALSE
  /\ isInitializing = TRUE
  /\ faceDetected = FALSE
  /\ camStream = FALSE
  /\ videoSrc = FALSE
  /\ camInterval = NoCb
  /\ camLoads = <<[cb |-> Handler(<<>>, 0), live |-> TRUE]>>
  /\ camAcq = {}
  /\ audStream = FALSE
  /\ audAcq = {}
  /\ audLoops = {}
  /\ elapsed = 0
  /\ timerSubmits = 0
  /\ trace = <<>>
  /\ reported = {}
  /\ strayStreams = {}
  /\ camDetects = {}
  /\ nCaptures = 0
  /\ applied = <<>>
  /\ loadCalls = <<FirstLoad>>
  /\ netsLoaded = [m \in Models |-> FALSE]
  /\ retryModelLoaded = FALSE
  /\ retryCamera = FALSE

\* ------------------------------------------------- rendering of the monitors
\* ProctorCamera's effect with dependency [onViolation]: every render of
\* ExamInterface creates a new handleViolation, so every render of the parent
\* starts loadModels again, which first sets isInitializing.
LoadModelsEffect(loads, cb) == Append(loads, [cb |-> cb, live |-> TRUE])

\* The video element is rendered only while isInitializing is false, so
\* videoRef.current (and canvasRef.current) is null during a load, and the
\* element rendered after a load is a new one, without srcObject.
VideoMounted == ~isInitializing

\* stopCamera / stopAudioMonitoring are written out where they run.

\* ExamInterface renders again without changing screen: the mounted monitors
\* get the new onViolation; only the camera's model-loading effect depends on it.
Rerender(loads, cb) ==
  /\ Len(loads) < MaxLoads
  /\ camLoads' = LoadModelsEffect(loads, cb)
  /\ isInitializing' = TRUE
  /\ videoSrc' = FALSE

\* ExamInterface switches between the start screen (monitors with
\* isActive={false}) and the exam screen (isActive={examStarted}): the
\* monitors of the old screen unmount (their cleanup stops camera and
\* microphone) and new instances mount. The new camera starts loading models
\* and, not having them, runs stopCamera; the new audio monitor starts
\* acquiring the microphone if active.
Remount(active, cb) ==
  /\ Len(camLoads) < MaxLoads
  /\ modelLoaded' = FALSE
  /\ isInitializing' = TRUE
  /\ faceDetected' = FALSE
  /\ camStream' = FALSE
  /\ videoSrc' = FALSE
  /\ camInterval' = NoCb
  /\ camLoads' = LoadModelsEffect(OrphanSeq(camLoads), cb)
  /\ camAcq' = Orphan(camAcq)
  /\ camDetects' = Orphan(camDetects)
  /\ UNCHANGED <<nCaptures, applied>>
  /\ audStream' = FALSE
  /\ audAcq' = Orphan(audAcq) \cup (IF active THEN {[cb |-> cb, live |-> TRUE]} ELSE {})
  /\ UNCHANGED audLoops

\* ------------------------------------------------------------ ExamInterface
\* Mutant of HandleViolation: a handler that also ends the exam.
HandleViolationEndingExam(cb, type, loads) ==
  /\ nReports < MaxReports
  /\ LET violation == [type |-> type, ts |-> nReports + 1,
                       sess |-> IF examStarted THEN sessionId ELSE 0]
         updatedViolations == Append(cb.viol, violation)
     IN /\ violations' = updatedViolations
        /\ violReqs' = violReqs \cup {[sid |-> cb.sid, viol |-> updatedViolations]}
        /\ nReports' = nReports + 1
        /\ reported' = reported \cup {violation}
        /\ examStarted' = FALSE
        /\ UNCHANGED <<sessionId, timeRemaining, sheetVars>>
        /\ Rerender(loads, Handler(updatedViolations, sessionId))

\* handleViolation as created in the render whose state is cb: it appends to
\* the violations of THAT render, sets the result as the new log, and sends
\* the result to the row of THAT render's sessionId; it calls no other setter.
\* The set-state re-renders the parent (loads is the camera's in-flight loads
\* before that render).
HandleViolation(cb, type, loads) ==
  /\ nReports < MaxReports
  /\ LET violation == [type |-> type, ts |-> nReports + 1,
                       sess |-> IF examStarted THEN sessionId ELSE 0]
         updatedViolations == Append(cb.viol, violation)
     IN /\ violations' = updatedViolations
        /\ violReqs' = violReqs \cup {[sid |-> cb.sid, viol |-> updatedViolations]}
        /\ nReports' = nReports + 1
        /\ reported' = reported \cup {violation}
        /\ UNCHANGED <<examVars, sheetVars>>
        /\ Rerender(loads, Handler(updatedViolations, sessionId))

\* handleSubmitExam up to its await: the update request leaves with the
\* sessionId of the render and the time of the call.
HandleSubmitExam(reqs, by) ==
  reqs \cup {[sid |-> sessionId, at |-> nSubmits + 1, by |-> by]}

\* Mutant of TimerRunning: the effect without its timeRemaining > 0 test.
TimerRunningWithoutZeroTest == examStarted

\* The interval of the timer effect exists in renders with this condition.
TimerRunning == examStarted /\ timeRemaining > 0

\* Click on "Begin Secure Examination" (rendered while !examStarted):
\* startExam up to its await.
StartExamClick ==
  /\ ~examStarted
  /\ nStarts < MaxSessions
  /\ startReqs' = startReqs + 1
  /\ nStarts' = nStarts + 1
  /\ UNCHANGED <<parentVars, sheetVars, db, submitReqs, violReqs, endedAtWrites,
                 clockVars, camVars, audVars, elapsed, timerSubmits, trace,
                 reported, strayStreams, detVars, retryVars>>

\* Mutant of StartFailed: startExam without its error branch.
StartFailedIgnored(ok) == FALSE

\* The test "if (error)" of startExam on the store's answer.
StartFailed(ok) == ~ok

\* startExam after its await: the store inserted the row (ok) or rejected the
\* insert, and startExam goes on with the answer.
ResolveStart(ok) ==
  /\ startReqs > 0
  /\ startReqs' = startReqs - 1
  /\ IF ok
     THEN /\ db' = Append(db, [status |-> "active", ended_at |-> 0, violations |-> <<>>])
          /\ endedAtWrites' = Append(endedAtWrites, 0)
     ELSE UNCHANGED <<db, endedAtWrites>>
  /\ IF ~StartFailed(ok)
     THEN /\ sessionId' = Len(db) + 1
          /\ examStarted' = TRUE
          /\ elapsed' = IF examStarted THEN elapsed ELSE 0
          /\ timerSubmits' = IF examStarted THEN timerSubmits ELSE 0
          /\ IF examStarted
             THEN /\ Rerender(camLoads, Handler(violations, Len(db) + 1))
                  /\ UNCHANGED <<modelLoaded, faceDetected, camStream, camInterval,
                                 camAcq, audVars, detVars>>
             ELSE Remount(TRUE, Handler(violations, Len(db) + 1))
     ELSE UNCHANGED <<sessionId, examStarted, elapsed, timerSubmits, camVars, audVars,
                      detVars>>
  /\ UNCHANGED <<timeRemaining, violations, sheetVars, submitReqs, violReqs, clockVars,
                 nStarts, trace, reported, strayStreams, retryVars>>

\* Click on "Submit Exam" (rendered on the exam screen in place of "Next"
\* when the current question is the last one).
SubmitClick ==
  /\ examStarted
  /\ currentQuestionIndex = questions - 1
  /\ nSubmits < MaxSubmits
  /\ submitReqs' = HandleSubmitExam(submitReqs, "user")
  /\ nSubmits' = nSubmits + 1
  /\ UNCHANGED <<parentVars, sheetVars, db, startReqs, violReqs, endedAtWrites,
                 nReports, nStarts, camVars, audVars, elapsed, timerSubmits, trace,
                 reported, strayStreams, detVars, retryVars>>

\* Mutant of Countdown: an updater that lowers the countdown by two.
CountdownByTwo(prev) == IF prev <= 1 THEN 0 ELSE prev - 2

\* The value the updater of setTimeRemaining returns for prev.
Countdown(prev) == IF prev <= 1 THEN 0 ELSE prev - 1

\* One firing of the timer's interval, with the render that follows it.
Tick ==
  /\ TimerRunning
  /\ timeRemaining' = Countdown(timeRemaining)
  /\ IF timeRemaining <= 1
     THEN /\ submitReqs' = HandleSubmitExam(submitReqs, "timer")
          /\ nSubmits' = nSubmits + 1
          /\ timerSubmits' = timerSubmits + 1
     ELSE UNCHANGED <<submitReqs, nSubmits, timerSubmits>>
  /\ elapsed' = elapsed + 1
  /\ Rerender(camLoads, Handler(violations, sessionId))
  /\ UNCHANGED <<examStarted, sessionId, violations, sheetVars, db, startReqs,
                 violReqs, endedAtWrites, nReports, nStarts, modelLoaded, faceDetected,
                 camStream, camInterval, camAcq, audVars, trace, reported, strayStreams,
                 detVars, retryVars>>

\* Mutant of CompletedRow: the update without its ended_at.
CompletedRowWithoutEndedAt(row, at) == [row EXCEPT !.status = "completed"]

\* The row after the update {status: 'completed', ended_at: <time of the call>}.
CompletedRow(row, at) == [row EXCEPT !.status = "completed", !.ended_at = at]

\* Mutant of SubmitFailed: a handler that returns on a rejected update.
SubmitFailedChecked(ok) == ~ok

\* What handleSubmitExam makes of the store's answer: it does not read the
\* result of its await, so no answer counts as a failure.
SubmitFailed(ok) == FALSE

\* handleSubmitExam after its await: the update was applied (ok) or rejected;
\* either way setExamStarted(false) follows.
ResolveSubmit(r, ok) ==
  /\ r \in submitReqs
  /\ submitReqs' = submitReqs \ {r}
  /\ IF ok /\ r.sid \in 1..Len(db)
     THEN /\ db' = [db EXCEPT ![r.sid] = CompletedRow(@, r.at)]
          /\ endedAtWrites' = [endedAtWrites EXCEPT ![r.sid] = @ + 1]
     ELSE UNCHANGED <<db, endedAtWrites>>
  /\ IF examStarted /\ ~SubmitFailed(ok)
     THEN /\ examStarted' = FALSE
          /\ Remount(FALSE, Handler(violations, sessionId))
     ELSE UNCHANGED <<examStarted, camVars, audVars, detVars>>
  /\ UNCHANGED <<sessionId, timeRemaining, violations, sheetVars, startReqs,
                 violReqs, clockVars, nStarts, elapsed, timerSubmits, trace, reported,
                 strayStreams, retryVars>>

\* handleViolation after its await: the update of the row's violations was
\* applied or rejected; only a toast follows.
ResolveViolationWrite(r, ok) ==
  /\ r \in violReqs
  /\ violReqs' = violReqs \ {r}
  /\ IF ok /\ r.sid \in 1..Len(db)
     THEN db' = [db EXCEPT ![r.sid].violations = r.viol]
     ELSE UNCHANGED db
  /\ UNCHANGED <<parentVars, sheetVars, startReqs, submitReqs, endedAtWrites,
                 clockVars, nStarts, camVars, audVars, elapsed, timerSubmits, trace,
                 reported, strayStreams, detVars, retryVars>>

\* ----------------------------------------------------------- question sheet
\* The question at an index (questions[index]); its id is the index plus one.
HasQuestion(index) == index \in 0..(questions - 1)

QuestionId(index) == index + 1

\* The render of ExamInterface that follows a change of the sheet; the sheet's
\* handlers touch nothing else.
SheetRender ==
  /\ Rerender(camLoads, Handler(violations, sessionId))
  /\ UNCHANGED <<parentVars, storeVars, clockVars, nStarts, modelLoaded,
                 faceDetected, camStream, camInterval, camAcq, audVars, elapsed,
                 timerSubmits, trace, reported, strayStreams, detVars, retryVars>>

\* loadQuestions (effect of the mount) after its await: the questions
\* arrived. A failed load shows a toast and leaves questions empty.
LoadQuestions ==
  /\ questions = 0
  /\ questions' = NumQuestions
  /\ UNCHANGED <<currentQuestionIndex, selectedAnswers, markedQuestions>>
  /\ SheetRender

\* handleAnswerChange: upsert of the answer under the question id.
HandleAnswerChange(questionId, answer) ==
  /\ selectedAnswers' = [q \in (DOMAIN selectedAnswers) \cup {questionId} |->
                           IF q = questionId THEN answer ELSE selectedAnswers[q]]
  /\ UNCHANGED <<questions, currentQuestionIndex, markedQuestions>>
  /\ SheetRender

\* A click on an option of the current question (the radio group of the exam
\* screen lists the options of questions[currentQuestionIndex], if any).
AnswerClick ==
  /\ examStarted
  /\ HasQuestion(currentQuestionIndex)
  /\ \E option \in Options :
       HandleAnswerChange(QuestionId(currentQuestionIndex), option)

\* Mutant of ToggleMark: an updater that only ever adds the index.
ToggleMarkAddOnly(prev, index) == prev \cup {index}

\* The set the updater of setMarkedQuestions returns for prev.
ToggleMark(prev, index) ==
  IF index \in prev THEN prev \ {index} ELSE prev \cup {index}

\* toggleMarkQuestion, by the "Mark for Review" button of the exam screen.
ToggleMarkQuestion ==
  /\ examStarted
  /\ markedQuestions' = ToggleMark(markedQuestions, currentQuestionIndex)
  /\ UNCHANGED <<questions, currentQuestionIndex, selectedAnswers>>
  /\ SheetRender

\* handleNextQuestion, by the "Next" button (rendered unless the current
\* question is the last one).
HandleNextQuestion ==
  /\ examStarted
  /\ currentQuestionIndex # questions - 1
  /\ IF currentQuestionIndex < questions - 1
     THEN /\ currentQuestionIndex' = currentQuestionIndex + 1
          /\ UNCHANGED <<questions, selectedAnswers, markedQuestions>>
          /\ SheetRender
     ELSE UNCHANGED vars

\* handlePreviousQuestion, by the "Previous" button (disabled at index 0).
HandlePreviousQuestion ==
  /\ examStarted
  /\ currentQuestionIndex # 0
  /\ IF currentQuestionIndex > 0
     THEN /\ currentQuestionIndex' = currentQuestionIndex - 1
          /\ UNCHANGED <<questions, selectedAnswers, markedQuestions>>
          /\ SheetRender
     ELSE UNCHANGED vars

\* jumpToQuestion: the index it is given becomes the current index.
JumpToQuestion(index) ==
  /\ examStarted
  /\ currentQuestionIndex' = index
  /\ UNCHANGED <<questions, selectedAnswers, markedQuestions>>
  /\ SheetRender

\* ------------------------------------------------------------ ProctorCamera
\* Mutant of analyzeGazeDirection: the thresholds themselves count as away.
analyzeGazeDirectionInclusive(ratio) ==
  IF ratio >= GazeLeftAbove THEN "left"
  ELSE IF ratio <= GazeRightBelow THEN "right"
  ELSE "center"

\* analyzeGazeDirection on the ratio leftEyeWidth / rightEyeWidth (hundredths).
analyzeGazeDirection(ratio) ==
  IF ratio > GazeLeftAbove THEN "left"
  ELSE IF ratio < GazeRightBelow THEN "right"
  ELSE "center"

\* The branch detectFaces takes for a detection result: the class of the tick.
VisionClass(n, ratio) ==
  IF n = 0 THEN "no_face"
  ELSE IF n > 1 THEN "multiple_faces"
  ELSE IF analyzeGazeDirection(ratio) # "center"
       THEN "looking_away_" \o analyzeGazeDirection(ratio)
       ELSE "none"

\* Whether detectFaces calls onViolation in that branch.
VisionEmits(n, ratio) ==
  IF n = 0 THEN faceDetected
  ELSE IF n > 1 THEN TRUE
  ELSE analyzeGazeDirection(ratio) # "center"

\* The type detectFaces passes to onViolation.
VisionType(n, ratio) ==
  IF n = 0 THEN "no_face"
  ELSE IF n > 1 THEN "multiple_faces"
  ELSE "looking_away"

\* loadModels settles. Loaded: setModelLoaded(true), setIsInitializing(false);
\* when modelLoaded changes, the activation effect runs again (cleanup
\* stopCamera, then startCamera if isActive, stopCamera otherwise). Failed:
\* the catch block reports model_error through the onViolation it captured.
ResolveLoad(i, ok) ==
  /\ i \in 1..Len(camLoads)
  /\ LET l == camLoads[i]
         rest == RemoveAt(camLoads, i)
     IN IF ok
        THEN /\ camLoads' = rest
             /\ IF l.live
                THEN /\ modelLoaded' = TRUE
                     /\ isInitializing' = FALSE
                     /\ IF ~modelLoaded
                        THEN /\ camStream' = FALSE
                             /\ camInterval' = NoCb
                             /\ faceDetected' = FALSE
                             /\ camAcq' = IF examStarted
                                          THEN camAcq \cup {[cb |-> Handler(violations, sessionId),
                                                             live |-> TRUE]}
                                          ELSE camAcq
                        ELSE UNCHANGED <<camStream, camInterval, faceDetected, camAcq>>
                ELSE UNCHANGED <<modelLoaded, isInitializing, camStream, camInterval,
                                 faceDetected, camAcq>>
             /\ UNCHANGED <<examVars, sheetVars, violations, violReqs, nReports, reported, videoSrc>>
        ELSE /\ HandleViolation(l.cb, "model_error", rest)
             /\ UNCHANGED <<modelLoaded, camStream, camInterval, faceDetected, camAcq>>
  /\ UNCHANGED <<db, startReqs,
                 submitReqs, endedAtWrites, nSubmits, nStarts, audVars, elapsed,
                 timerSubmits, trace, strayStreams, detVars, retryVars>>

\* startCamera after getUserMedia settles. Acquired: the stream goes to
\* streamRef and, if the video element exists, to its srcObject, and
\* startFaceDetection sets the interval; without a video element (during a
\* load, or on an unmounted instance) no interval is set.
\* Failed: camera_error through the captured onViolation. A stream that
\* arrives at an unmounted instance goes to that instance's streamRef, which
\* no stopCamera will read again.
ResolveCamAcq(a, ok) ==
  /\ a \in camAcq
  /\ camAcq' = camAcq \ {a}
  /\ IF ok
     THEN /\ IF a.live
             THEN /\ camStream' = TRUE
                  /\ videoSrc' = VideoMounted
                  /\ camInterval' = IF VideoMounted THEN a.cb ELSE camInterval
                  /\ UNCHANGED strayStreams
             ELSE /\ strayStreams' = strayStreams \cup {"camera"}
                  /\ UNCHANGED <<camStream, videoSrc, camInterval>>
          /\ UNCHANGED <<examVars, sheetVars, violations, violReqs, nReports, camLoads, isInitializing,
                         reported>>
     ELSE /\ HandleViolation(a.cb, "camera_error", camLoads)
          /\ UNCHANGED <<camStream, camInterval, strayStreams>>
  /\ UNCHANGED <<db, startReqs,
                 submitReqs, endedAtWrites, nSubmits, nStarts, modelLoaded,
                 faceDetected, audVars, elapsed, timerSubmits, trace,
                 detVars, retryVars>>

\* One firing of the detection interval that gets past the guard
\* (!videoRef.current || !isActive) and whose detection returns n faces, the
\* single face having the given gaze ratio (without exactly one face no ratio
\* is computed; CentredRatio stands in). A detection on a video element
\* without a stream returns nothing. obs: the tick is recorded.
DetectFaces(n, ratio, obs) ==
  /\ n = 1 \/ ratio = CentredRatio
  /\ camInterval # NoCb
  /\ VideoMounted
  /\ videoSrc
  /\ obs => Len(trace) < MaxTicks
  /\ faceDetected' = (n > 0)
  /\ IF VisionEmits(n, ratio)
     THEN HandleViolation(camInterval, VisionType(n, ratio), camLoads)
     ELSE UNCHANGED <<examVars, sheetVars, violations, violReqs, nReports, camLoads, isInitializing,
                      videoSrc, reported>>
  /\ trace' = IF obs
              THEN Append(trace, [mod |-> "vision", cls |-> VisionClass(n, ratio),
                                  emitted |-> VisionEmits(n, ratio),
                                  faces |-> n, ratio |-> ratio])
              ELSE trace
  /\ UNCHANGED <<db, startReqs,
                 submitReqs, endedAtWrites, nSubmits, nStarts, modelLoaded, camStream,
                 camInterval, camAcq, audVars, elapsed, timerSubmits, strayStreams,
                 detVars, retryVars>>

\* ------------------------------------------------------------- AudioMonitor
\* The class of an audio frame and whether monitorAudio reports it.
AudioEmits(level) == level > AudioThreshold

AudioClass(level) == IF AudioEmits(level) THEN "suspicious_audio" ELSE "none"

\* startAudioMonitoring after getUserMedia settles. Acquired: stream, context
\* and analyser go to the refs and monitorAudio starts its frame loop, whose
\* closure has isActive = true and the onViolation of the mounting render.
\* Failed: audio_error through the captured onViolation. A stream that
\* arrives at an unmounted instance goes to that instance's refs and its loop
\* starts all the same; no stopAudioMonitoring will run for it again.
ResolveAudAcq(a, ok) ==
  /\ a \in audAcq
  /\ audAcq' = audAcq \ {a}
  /\ IF ok
     THEN /\ audStream' = IF a.live THEN TRUE ELSE audStream
          /\ strayStreams' = IF a.live THEN strayStreams
                             ELSE strayStreams \cup {"microphone"}
          /\ audLoops' = audLoops \cup {a.cb}
          /\ UNCHANGED <<examVars, sheetVars, violations, violReqs, nReports, camLoads, isInitializing,
                         videoSrc, reported>>
     ELSE /\ HandleViolation(a.cb, "audio_error", camLoads)
          /\ UNCHANGED <<audStream, audLoops, strayStreams>>
  /\ UNCHANGED <<db, startReqs,
                 submitReqs, endedAtWrites, nSubmits, nStarts, modelLoaded,
                 faceDetected, camStream, camInterval, camAcq, elapsed, timerSubmits,
                 trace, detVars, retryVars>>

\* One frame of a running monitorAudio loop. The loop tests the isActive and
\* the analyserRef of its own closure, neither of which stopAudioMonitoring
\* changes, so a started loop keeps running.
MonitorAudio(cb, level, obs) ==
  /\ cb \in audLoops
  /\ obs => Len(trace) < MaxTicks
  /\ IF AudioEmits(level)
     THEN HandleViolation(cb, "suspicious_audio", camLoads)
     ELSE UNCHANGED <<examVars, sheetVars, violations, violReqs, nReports, camLoads, isInitializing,
                      videoSrc, reported>>
  /\ trace' = IF obs
              THEN Append(trace, [mod |-> "audio", cls |-> AudioClass(level),
                                  emitted |-> AudioEmits(level)])
              ELSE trace
  /\ UNCHANGED <<db, startReqs,
                 submitReqs, endedAtWrites, nSubmits, nStarts, modelLoaded,
                 faceDetected, camStream, camInterval, camAcq, audVars, elapsed,
                 timerSubmits, strayStreams, detVars, retryVars>>

\* ------------------------------------------- detections that take their time
\* A firing of the detection interval that gets past the guard and calls
\* detectAllFaces; the interval fires again 100 ms later whether or not the
\* call has returned. (DetectFaces above is a firing whose detection returns
\* before anything else happens.)
DetectCapture ==
  /\ camInterval # NoCb
  /\ VideoMounted
  /\ videoSrc
  /\ nCaptures < MaxCaptures
  /\ nCaptures' = nCaptures + 1
  /\ camDetects' = camDetects \cup {[k |-> nCaptures + 1, cb |-> camInterval, live |-> TRUE]}
  /\ UNCHANGED <<parentVars, sheetVars, storeVars, clockVars, nStarts, camVars,
                 audVars, elapsed, timerSubmits, trace, reported, strayStreams,
                 applied, retryVars>>

\* A detectAllFaces call returns n faces and detectFaces goes on after its
\* await, with the onViolation of the closure that made the call. On an
\* unmounted instance setDetectionState does nothing (its updater, which is
\* what reports no_face, does not run); onViolation is called all the same.
DetectResult(d, n, ratio) ==
  /\ n = 1 \/ ratio = CentredRatio
  /\ d \in camDetects
  /\ camDetects' = camDetects \ {d}
  /\ applied' = Append(applied, d.k)
  /\ faceDetected' = IF d.live THEN n > 0 ELSE faceDetected
  /\ IF VisionEmits(n, ratio) /\ (n > 0 \/ d.live)
     THEN HandleViolation(d.cb, VisionType(n, ratio), camLoads)
     ELSE UNCHANGED <<examVars, sheetVars, violations, violReqs, nReports, camLoads,
                      isInitializing, videoSrc, reported>>
  /\ UNCHANGED <<db, startReqs, submitReqs, endedAtWrites, nSubmits, nStarts,
                 modelLoaded, camStream, camInterval, camAcq, audVars, elapsed,
                 timerSubmits, trace, strayStreams, nCaptures, retryVars>>

\* ------------------------------- ProctorCamera with the retrying model loader
\* (the component of part_001, taken on its own with isActive = true; the
\* downloads that precede the loads are taken to succeed).

\* Promise.all over the three loadWithRetry: rejected as soon as one of them
\* throws, fulfilled when all have returned.
LoadStatus(call) ==
  IF call.status # "running" THEN call.status
  ELSE IF \E m \in Models : call.loaders[m] = "failed" THEN "caught"
  ELSE IF \A m \in Models : call.loaders[m] \in {"loaded", "returned"} THEN "done"
  ELSE "running"

\* loadModels catches whatever it throws, so a call that ends, either way,
\* returns normally to the loadWithRetry that awaits it ("return
\* loadModels(retryCount + 1)"), which thereby returns to its own Promise.all.
RECURSIVE ReturnToParent(_, _)
ReturnToParent(calls, c) ==
  LET p == calls[c].parent
  IN IF p.call = 0 THEN calls
     ELSE LET returned == [calls[p.call] EXCEPT !.loaders[p.model] = "returned"]
              after == [calls EXCEPT ![p.call] = [returned EXCEPT !.status = LoadStatus(returned)]]
          IN IF calls[p.call].status = "running" /\ after[p.call].status # "running"
             THEN ReturnToParent(after, p.call)
             ELSE after

\* The test of loadWithRetry's catch block.
RetryAllowed(retryCount) == retryCount < MaxRetries

\* The calls after loader.loadFromUri of model m in call c has settled: loaded,
\* or failed, and then retried by a new loadModels(retryCount + 1) or thrown.
AfterLoader(c, m, ok) ==
  LET call == loadCalls[c]
      outcome == IF ok THEN "loaded"
                 ELSE IF RetryAllowed(call.retryCount) THEN "retrying" ELSE "failed"
      settled == [call EXCEPT !.loaders[m] = outcome]
      updated == [loadCalls EXCEPT ![c] = [settled EXCEPT !.status = LoadStatus(settled)]]
      ended == IF call.status = "running" /\ updated[c].status # "running"
               THEN ReturnToParent(updated, c) ELSE updated
  IN IF outcome = "retrying"
     THEN Append(ended, NewLoad(call.retryCount + 1, [call |-> c, model |-> m]))
     ELSE ended

\* One loadFromUri settles. A call that gets past its Promise.all runs
\* setModelLoaded(true), and the activation effect (isActive && modelLoaded)
\* then calls startCamera; a call that lands in its catch block (status
\* "caught") reports model_error.
LoaderSettles(c, m, ok) ==
  /\ c \in 1..Len(loadCalls)
  /\ loadCalls[c].loaders[m] = "loading"
  /\ (~ok /\ RetryAllowed(loadCalls[c].retryCount)) => Len(loadCalls) < MaxAttempts
  /\ loadCalls' = AfterLoader(c, m, ok)
  /\ netsLoaded' = IF ok THEN [netsLoaded EXCEPT ![m] = TRUE] ELSE netsLoaded
  /\ retryModelLoaded' = (retryModelLoaded
                          \/ \E i \in 1..Len(loadCalls') : loadCalls'[i].status = "done")
  /\ retryCamera' = (retryCamera \/ retryModelLoaded')
  /\ UNCHANGED <<parentVars, sheetVars, storeVars, clockVars, nStarts, camVars,
                 audVars, elapsed, timerSubmits, trace, reported, strayStreams, detVars>>

\* ----------------------------------------------------------- specifications
StartResolves == \E ok \in BOOLEAN : ResolveStart(ok)
SubmitResolves == \E r \in submitReqs, ok \in BOOLEAN : ResolveSubmit(r, ok)
ViolationWriteResolves ==
  \E r \in violReqs, ok \in BOOLEAN : ResolveViolationWrite(r, ok)
LoadResolves == \E i \in 1..Len(camLoads), ok \in BOOLEAN : ResolveLoad(i, ok)
CamAcqResolves == \E a \in camAcq, ok \in BOOLEAN : ResolveCamAcq(a, ok)
AudAcqResolves == \E a \in audAcq, ok \in BOOLEAN : ResolveAudAcq(a, ok)
\* A click on a button of the question navigator (one button per question).
JumpClick == \E index \in 0..(questions - 1) : JumpToQuestion(index)
VisionTick == \E n \in FaceCounts, ratio \in Ratios : DetectFaces(n, ratio, FALSE)
DetectResults ==
  \E d \in camDetects, n \in FaceCounts, ratio \in Ratios : DetectResult(d, n, ratio)
AudioTick == \E cb \in audLoops, level \in Levels : MonitorAudio(cb, level, FALSE)

Next ==
  \/ LoadQuestions
  \/ StartExamClick
  \/ StartResolves
  \/ AnswerClick
  \/ ToggleMarkQuestion
  \/ HandleNextQuestion
  \/ HandlePreviousQuestion
  \/ JumpClick
  \/ SubmitClick
  \/ Tick
  \/ SubmitResolves
  \/ ViolationWriteResolves
  \/ LoadResolves
  \/ CamAcqResolves
  \/ AudAcqResolves
  \/ VisionTick
  \/ AudioTick
  \/ DetectCapture
  \/ DetectResults

Spec == Init /\ [][Next]_vars

\* Spec is the whole program. The specifications below are parts of it: each
\* of their next-state relations is made of disjuncts of Next, or of cases of
\* them, so each of their behaviours is a behaviour of the program (SpecCalls
\* and SpecAnswers excepted, which call a handler with arguments no button
\* passes).

\* The session, the store and the monitors with every failure of the store,
\* of the model load and of the devices; no sampling tick, and of the sheet
\* only what leads to the submit button.
NextFailures ==
  \/ LoadQuestions
  \/ StartExamClick
  \/ StartResolves
  \/ HandleNextQuestion
  \/ SubmitClick
  \/ Tick
  \/ SubmitResolves
  \/ ViolationWriteResolves
  \/ LoadResolves
  \/ CamAcqResolves
  \/ AudAcqResolves

SpecFailures == Init /\ [][NextFailures]_vars

\* The session alone: the questions arrive, the exam is started, the user
\* steps forward to the last question and submits, the timer runs, the store
\* answers or rejects, and the monitors obtain models, camera and microphone
\* without reporting anything.
StartSucceeds == ResolveStart(TRUE)
LoadSucceeds == \E i \in 1..Len(camLoads) : ResolveLoad(i, TRUE)
CamAcqSucceeds == \E a \in camAcq : ResolveCamAcq(a, TRUE)
AudAcqSucceeds == \E a \in audAcq : ResolveAudAcq(a, TRUE)

NextSession ==
  \/ LoadQuestions
  \/ StartExamClick
  \/ StartResolves
  \/ HandleNextQuestion
  \/ SubmitClick
  \/ Tick
  \/ SubmitResolves
  \/ LoadSucceeds
  \/ CamAcqSucceeds
  \/ AudAcqSucceeds

SpecSession == Init /\ [][NextSession]_vars

\* The session with the whole question sheet: every navigation button,
\* answers and marks.
NextSheet ==
  \/ NextSession
  \/ HandlePreviousQuestion
  \/ JumpClick
  \/ AnswerClick
  \/ ToggleMarkQuestion

SpecSheet == Init /\ [][NextSheet]_vars

\* The session with jumpToQuestion called as the function it is, with any
\* number (the navigator's buttons pass the indices of the questions only).
JumpCall == \E index \in JumpArgs : JumpToQuestion(index)

NextCalls ==
  \/ NextSession
  \/ HandlePreviousQuestion
  \/ JumpCall

SpecCalls == Init /\ [][NextCalls]_vars

\* The session with handleAnswerChange called as the function it is, with any
\* id (the radio group passes the id of the current question only).
AnswerCall ==
  /\ examStarted
  /\ \E questionId \in AnswerArgs, option \in Options :
       HandleAnswerChange(questionId, option)

NextAnswers ==
  \/ NextSession
  \/ AnswerCall

SpecAnswers == Init /\ [][NextAnswers]_vars

\* The timer's interval fires every second and every pending promise settles;
\* nothing obliges the user to click.
Fairness ==
  /\ WF_vars(Tick)
  /\ WF_vars(StartResolves)
  /\ WF_vars(SubmitResolves)
  /\ WF_vars(LoadSucceeds)
  /\ WF_vars(CamAcqSucceeds)
  /\ WF_vars(AudAcqSucceeds)

FairSpec == SpecSession /\ Fairness

\* The sampling pipelines observed: one exam is started, models, camera and
\* microphone are obtained, and every sampling tick is recorded in trace with
\* its class and whether it reported a violation.
ViolationWriteSucceeds == \E r \in violReqs : ResolveViolationWrite(r, TRUE)
VisionTickObserved == \E n \in FaceCounts, ratio \in Ratios : DetectFaces(n, ratio, TRUE)
AudioTickObserved == \E cb \in audLoops, level \in Levels : MonitorAudio(cb, level, TRUE)

NextVision ==
  \/ StartExamClick
  \/ StartSucceeds
  \/ ViolationWriteSucceeds
  \/ LoadSucceeds
  \/ CamAcqSucceeds
  \/ AudAcqSucceeds
  \/ VisionTickObserved
  \/ AudioTickObserved

SpecVision == Init /\ [][NextVision]_vars

\* The sampling pipelines observed up to and after the end of the exam: the
\* timer runs out and its submit is answered.
NextStop ==
  \/ NextVision
  \/ Tick
  \/ SubmitResolves

SpecStop == Init /\ [][NextStop]_vars

\* The question sheet of one Active exam: answers and marks, moving forward.
NextMarks ==
  \/ LoadQuestions
  \/ StartExamClick
  \/ StartSucceeds
  \/ LoadSucceeds
  \/ HandleNextQuestion
  \/ AnswerClick
  \/ ToggleMarkQuestion

SpecMarks == Init /\ [][NextMarks]_vars

\* The error reports of the monitors in an exam that is not submitted: model
\* loads and device acquisitions succeed or fail, the log's writes succeed.
NextReports ==
  \/ LoadQuestions
  \/ StartExamClick
  \/ StartSucceeds
  \/ HandleNextQuestion
  \/ LoadResolves
  \/ CamAcqResolves
  \/ AudAcqResolves
  \/ ViolationWriteSucceeds

SpecReports == Init /\ [][NextReports]_vars

\* The store answering or rejecting the writes of an exam that the timer
\* submits, with a camera that may fail.
NextStore ==
  \/ StartExamClick
  \/ StartSucceeds
  \/ LoadSucceeds
  \/ CamAcqResolves
  \/ AudAcqSucceeds
  \/ Tick
  \/ SubmitResolves
  \/ ViolationWriteResolves

SpecStore == Init /\ [][NextStore]_vars

\* The vision pipeline with detections that outlast the interval's period.
NextOverlap ==
  \/ StartExamClick
  \/ StartSucceeds
  \/ ViolationWriteSucceeds
  \/ LoadSucceeds
  \/ CamAcqSucceeds
  \/ DetectCapture
  \/ DetectResults

SpecOverlap == Init /\ [][NextOverlap]_vars

\* The retrying model loader on its own.
LoaderSucceeds == \E c \in 1..Len(loadCalls), m \in Models : LoaderSettles(c, m, TRUE)
LoaderFails == \E c \in 1..Len(loadCalls), m \in Models : LoaderSettles(c, m, FALSE)

NextRetry ==
  \/ LoaderSucceeds
  \/ LoaderFails

SpecRetry == Init /\ [][NextRetry]_vars

\* ------------------------------------------------------------------- claims
\* The exam state machine as the component shows it.
NotStarted == ~examStarted /\ sessionId = 0
Active == examStarted
Completed == ~examStarted /\ sessionId # 0

TimerSubmitIssued == \E r \in submitReqs' \ submitReqs : r.by = "timer"

\* C1: whatever the interleaving of two submit() calls on one Active session
\* (two clicks, or a click and the timer's expiry), the Active->Completed
\* transition is applied once and ended_at is written once per session.
C1_EndedAtWrittenOnce ==
  \A s \in 1..Len(db) : endedAtWrites[s] <= 1

\* C2: the violation log only grows by appending: within a session the log
\* before a step is a prefix of the log after it.
C2_LogAppendOnly ==
  [][sessionId' = sessionId => IsPrefix(violations, violations')]_vars

\* The class of the previous tick of the same modality ("none" at the start).
PrevClass(i) ==
  LET before == {j \in 1..(i - 1) : trace[j].mod = trace[i].mod}
  IN IF before = {} THEN "none"
     ELSE trace[CHOOSE j \in before : \A k \in before : k <= j].cls

\* C3: from the debouncer state "none", every vision tick whose class is not
\* none and differs from the previous tick's class emits a violation (so zero
\* faces on the first tick of a session emits no_face).
C3_EntryEmits ==
  \A i \in 1..Len(trace) :
    (trace[i].mod = "vision" /\ trace[i].cls # "none" /\ trace[i].cls # PrevClass(i))
      => trace[i].emitted

\* C4: for each modality, a tick whose class is the same non-none class as
\* the previous tick's emits nothing.
C4_SteadySuppressed ==
  \A i \in 1..Len(trace) :
    (trace[i].cls # "none" /\ trace[i].cls = PrevClass(i)) => ~trace[i].emitted

\* C5: the countdown changes only by a timer tick of an Active session, which
\* lowers it by one; the timer invokes submit() on exactly the tick that
\* brings the countdown from 1 to 0, and at most once per Active period.
C5_TimerSubmitsOnceAtZero ==
  [][/\ timeRemaining' # timeRemaining
          => (examStarted /\ timeRemaining > 0 /\ timeRemaining' = timeRemaining - 1)
     /\ TimerSubmitIssued <=> (timeRemaining = 1 /\ timeRemaining' = 0)
     /\ timerSubmits' = timerSubmits + (IF TimerSubmitIssued THEN 1 ELSE 0)
          \/ (timerSubmits' = 0 /\ ~examStarted /\ examStarted')
     /\ timerSubmits' <= 1]_vars

\* C5 witness: the timer of a session counted down from Duration to zero and
\* invoked submit.
C5_Witness ==
  examStarted /\ timeRemaining = 0 /\ elapsed = Duration /\ timerSubmits = 1

\* C6: every session starts its countdown at Duration, and the timer's submit
\* never comes before Duration ticks since the exam became Active.
C6_CountdownStartsAtDuration ==
  [][/\ (~examStarted /\ examStarted') => timeRemaining' = Duration
     /\ TimerSubmitIssued => elapsed' >= Duration]_vars

\* C7: under fair ticking every Active session is eventually completed
\* without the user submitting.
C7_EventuallyCompleted == examStarted ~> ~examStarted

\* C8: once Completed, the exam never is NotStarted or Active again.
C8_CompletedIsTerminal == [][Completed => Completed']_vars

\* C9: the violation log changes, and a violation write is sent to the
\* store, only while the session is Active.
C9_RecordedOnlyWhileActive ==
  [][(violations' # violations \/ violReqs' \ violReqs # {}) => examStarted]_vars

ErrorKinds == {"model_error", "camera_error", "audio_error"}

\* C10: a session's log holds at most one model_error, one camera_error and
\* one audio_error: a failed load or acquisition is reported once and not
\* attempted again.
C10_OneErrorPerModality ==
  \A s \in 1..Len(db), k \in ErrorKinds :
    Cardinality({i \in 1..Len(violations) :
                   violations[i].type = k /\ violations[i].sess = s}) <= 1

\* The kinds of the violations reported so far while session s was Active.
ReportedKinds(s) == {v.type : v \in {w \in reported : w.sess = s}}

LoggedKinds == {violations[i].type : i \in 1..Len(violations)}

\* C11: in an Active session whose camera and microphone acquisitions both
\* failed, and where nothing else was reported, the log holds exactly two
\* violations, one camera_error and one audio_error, whatever the order and
\* the timing of the two failures.
C11_BothDeviceErrorsLogged ==
  (/\ examStarted
   /\ Cardinality(reported) = 2
   /\ ReportedKinds(sessionId) = {"camera_error", "audio_error"})
    => (Len(violations) = 2 /\ LoggedKinds = {"camera_error", "audio_error"})

\* C12: a session started after an earlier session ended begins with an
\* empty violation log, and no write to a session's persisted log holds a
\* violation recorded under another session id (sess 0: under none).
C12_NoCrossSessionLeak ==
  [][/\ (Completed /\ examStarted') => violations' = <<>>
     /\ \A r \in violReqs' :
          \A i \in 1..Len(r.viol) : r.viol[i].sess \in {0, r.sid}]_vars

\* submit() has been invoked for the current session and is not yet answered.
SubmitInvoked == \E r \in submitReqs : r.sid = sessionId

\* C13: once submit() has been invoked (the completeSession request in
\* flight) or the exam is Completed, no step changes AnswerMap or MarkSet.
C13_SheetFrozenAfterSubmit ==
  [][(SubmitInvoked \/ Completed)
       => (selectedAnswers' = selectedAnswers /\ markedQuestions' = markedQuestions)]_vars

C15_EndedAtIffCompleted ==
  \A s \in 1..Len(db) : (db[s].ended_at # 0) <=> (db[s].status = "completed")

\* C15 witness: a row that was completed (status and ended_at written) beside
\* a row that was created and is still active with ended_at null.
C15_Witness ==
  /\ Len(db) = 2
  /\ db[1].status = "completed" /\ db[1].ended_at # 0
  /\ db[2].status = "active" /\ db[2].ended_at = 0

\* The step in which the store rejects a createSession request.
StartRejected == startReqs' = startReqs - 1 /\ db' = db

\* C16: a createSession rejected in NotStarted leaves the exam NotStarted: no
\* session id, no running timer, the countdown untouched, both monitors
\* inactive (no acquisition, stream or sampling loop), and the start button
\* still shown.
C16_RejectedStartStaysNotStarted ==
  [][(NotStarted /\ StartRejected)
       => /\ NotStarted'
          /\ ~TimerRunning' /\ timeRemaining' = timeRemaining
          /\ ~camStream' /\ camAcq' = {} /\ camInterval' = NoCb
          /\ ~audStream' /\ audAcq' = {} /\ audLoops' = {}]_vars

\* C16 witness: a createSession was rejected (a startExam call was answered
\* and there is no session) and the exam is NotStarted.
C16_Witness ==
  NotStarted /\ nStarts > startReqs /\ Len(db) = 0

\* C17: no device stream stays open once its monitor is stopped: no stream
\* is held by an unmounted monitor, and none by a monitor of the start screen.
C17_StoppedMonitorsHoldNoStream ==
  /\ strayStreams = {}
  /\ ~examStarted => (~camStream /\ ~audStream)

\* C18: from the moment submit() is invoked the timer does not tick: the
\* countdown is not lowered again and no further timer submit is issued, also
\* while the completeSession request is pending.
C18_NoTickAfterSubmit ==
  [][SubmitInvoked => (timeRemaining' = timeRemaining /\ ~TimerSubmitIssued)]_vars

\* C19: a sampling tick (vision or audio) executes only while the exam is
\* Active: after the monitors are stopped no sample is classified.
C19_NoSamplingAfterStop ==
  [][trace' # trace => examStarted]_vars

InLog(v) == \E i \in 1..Len(violations) : violations[i] = v

\* C20: in the first session of a run (one startExam call), when no
\* violation write is in flight, the violation list persisted for the Active
\* session equals the local log, and the log holds every violation reported
\* so far in the session.
C20_StoreMatchesLog ==
  (examStarted /\ nStarts = 1 /\ violReqs = {} /\ sessionId \in 1..Len(db))
    => /\ db[sessionId].violations = violations
       /\ \A v \in reported : v.sess = sessionId => InLog(v)

\* C30: the countdown stays within 0..Duration (Duration stands for 3600); it
\* never increases; every timer tick lowers it by exactly 1 (a tick at 1 gives
\* 0); and no step other than a timer tick changes it.
C30_CountdownBoundedAndTickOnly ==
  [][/\ timeRemaining \in 0..Duration /\ timeRemaining' \in 0..Duration
     /\ timeRemaining' <= timeRemaining
     /\ elapsed' = elapsed + 1 => timeRemaining' = timeRemaining - 1
     /\ timeRemaining' # timeRemaining => elapsed' = elapsed + 1]_vars

\* C30 witness: the timer has ticked the countdown from Duration down to 0.
C30_Witness ==
  timeRemaining = 0 /\ elapsed = Duration
\* C27: a toggleMark flips the membership of the current index in MarkSet and
\* of no other index, leaves AnswerMap and the current index as they are, and
\* a second toggle on its result gives back the MarkSet it started from.
C27_ToggleFlipsCurrentIndexOnly ==
  [][markedQuestions' # markedQuestions
       => /\ (markedQuestions' \ markedQuestions) \cup (markedQuestions \ markedQuestions')
               = {currentQuestionIndex}
          /\ UNCHANGED <<selectedAnswers, currentQuestionIndex, questions>>
          /\ ToggleMark(markedQuestions', currentQuestionIndex') = markedQuestions]_vars

\* C27 witness: with an answer given and question 0 marked, a toggle on
\* index 1 has marked it too.
C27_Witness ==
  /\ examStarted
  /\ markedQuestions = {0, 1}
  /\ currentQuestionIndex = 1
  /\ DOMAIN selectedAnswers # {}
C24_ClassifierRules ==
  \A i \in 1..Len(trace) :
    trace[i].mod = "vision" =>
      /\ trace[i].faces = 0 => trace[i].cls = "no_face"
      /\ trace[i].faces > 1 => trace[i].cls = "multiple_faces"
      /\ (trace[i].faces = 1 /\ trace[i].ratio > 115) => trace[i].cls = "looking_away_left"
      /\ (trace[i].faces = 1 /\ trace[i].ratio < 85) => trace[i].cls = "looking_away_right"
      /\ (trace[i].faces = 1 /\ trace[i].ratio \in 85..115)
           => (trace[i].cls = "none" /\ ~trace[i].emitted)
      /\ trace[i].emitted => trace[i].cls # "none"

\* C24 witness: MaxTicks consecutive vision ticks with one centred face, the
\* boundary ratios among them, and no violation recorded.
C24_Witness ==
  /\ Len(trace) = MaxTicks
  /\ \A i \in 1..Len(trace) : trace[i].mod = "vision" /\ trace[i].faces = 1
  /\ {trace[i].ratio : i \in 1..Len(trace)} = {85, 100, 115}
  /\ violations = <<>> /\ reported = {}
\* C23: a step in which recordViolation is called, whatever the kind of the
\* violation, leaves the session's status and id, the countdown, the current
\* question index, AnswerMap and MarkSet as they were.
C23_ReportChangesLogOnly ==
  [][reported' # reported
       => UNCHANGED <<examStarted, sessionId, timeRemaining, questions,
                      currentQuestionIndex, selectedAnswers, markedQuestions>>]_vars

\* C23 witness: in an Active exam on its second question, with an answer and
\* a mark, two device or model errors have been recorded.
C23_Witness ==
  /\ examStarted /\ currentQuestionIndex = 1
  /\ Cardinality(reported) = 2
  /\ \A v \in reported : v.type \in ErrorKinds /\ v.sess = sessionId
\* The steps in which the store answers a completeSession request without
\* writing ended_at, and a violation-list update without changing a row.
SubmitRejected ==
  \E r \in submitReqs : submitReqs' = submitReqs \ {r} /\ endedAtWrites' = endedAtWrites
ViolationWriteRejected ==
  \E r \in violReqs : violReqs' = violReqs \ {r} /\ db' = db

\* C22: a rejected completeSession still completes the exam locally (no
\* timer, no stream or detection interval held by the mounted monitors, the
\* session id and the log kept), and a rejected appendViolation leaves the
\* violation in the local log and the exam as it was.
C22_LocalTransitionStands ==
  [][/\ (examStarted /\ SubmitRejected)
          => /\ ~examStarted' /\ sessionId' = sessionId
             /\ ~TimerRunning'
             /\ ~camStream' /\ camInterval' = NoCb /\ ~audStream'
             /\ violations' = violations
     /\ ViolationWriteRejected
          => (violations' = violations /\ examStarted' = examStarted)]_vars

\* C22 witness: the exam is Completed locally with a violation in its log,
\* no request is pending, and the store has neither the completion nor the
\* violation.
C22_Witness ==
  /\ Completed /\ violations # <<>>
  /\ submitReqs = {} /\ violReqs = {}
  /\ db[sessionId].status = "active" /\ db[sessionId].violations = <<>>
\* C26: whatever the interleaving of start() calls, the store never holds
\* more than one session record with status active.
C26_OneActiveRecord ==
  Cardinality({s \in 1..Len(db) : db[s].status = "active"}) <= 1
\* C21: the results of the vision ticks are applied in capture order: the
\* result of tick k before the result of tick k + 1.
C21_ResultsInCaptureOrder ==
  \A i \in 1..Len(applied), j \in 1..Len(applied) : i < j => applied[i] < applied[j]

\* C28: in the retrying loader, a failing load causes at most maxRetries
\* further loadModels calls in total.
C28_AtMostMaxRetriesFurtherLoads ==
  Len(loadCalls) - 1 <= MaxRetries

\* C29: in the retrying loader, modelLoaded is true, and the camera is started,
\* only if every model was loaded successfully.
C29_ModelLoadedOnlyIfAllLoaded ==
  (retryModelLoaded \/ retryCamera) => \A m \in Models : netsLoaded[m]
====
